---- MODULE Spec2Model ----
(***************************************************************************)
(* LP-based branch and bound for 0/1 programs                              *)
(* (src/utils/branch_and_bound.py, src/model/Model.py,                     *)
(* src/screen/root_screen.py).                                             *)
(*                                                                         *)
(* Values of decision variables are multiples of 1/Denom, written as the   *)
(* numerator: the value v stands for v/Denom, so 0 is 0 and Denom is 1.    *)
(* Python values that change type at run time are tagged records:          *)
(* PyNone, PyStr(s), PyDict(items); a dict is the sequence of its          *)
(* (name, value) items in insertion order, which is what                   *)
(* tuple(d.items()) yields.                                                *)
(***************************************************************************)
EXTENDS Integers, Sequences, FiniteSets, TLC

(* ------------------------------ bounds -------------------------------- *)
\* largest coefficient written in the objective and in the constraints
MaxCoeff == 2
\* largest right-hand side written in a constraint
MaxRhs == 1
\* the LP oracle answers with multiples of 1/Denom
Denom == 4
\* largest number of variables of an assignment handed to the branching rule
MaxVars == 4

(* --------------------------- Python values ---------------------------- *)
PyNone == [type |-> "NoneType"]
PyStr(s) == [type |-> "str", val |-> s]
PyDict(items) == [type |-> "dict", items |-> items]
\* the branching rule's "no variable" result
None == "None"

Min(a, b) == IF a <= b THEN a ELSE b

\* {var_name: var.X for var_name, var in vars_dict.items()}
Items(names, point) == [i \in 1..Len(names) |-> <<names[i], point[i]>>]

\* dict.get(key, None) on the items of a dict; None is -1 here
DictGet(items, key) ==
    IF \E i \in 1..Len(items) : items[i][1] = key
    THEN items[CHOOSE i \in 1..Len(items) : items[i][1] = key][2]
    ELSE -1

(* ------------------------------ Model.py ------------------------------ *)
\* A constraint text is given by what the regular expressions of
\* extract_coefficients find in it: the numbers followed by "*", the first
\* run of the characters < > =, and the trailing number.
ConstraintText(coeffs, operator, last_value) ==
    [coeffs |-> coeffs, operator |-> operator, last_value |-> last_value]

extract_coefficients(m) ==
    [objective_coeffs |-> m.obj_f,
     constraint_coeffs |-> [k \in 1..Len(m.constraints) |-> m.constraints[k].coeffs],
     operators |-> [k \in 1..Len(m.constraints) |-> m.constraints[k].operator],
     last_values |-> [k \in 1..Len(m.constraints) |-> m.constraints[k].last_value]]

(* ------------------------------ LP oracle ----------------------------- *)
RECURSIVE SumZip(_, _, _)
\* sum of coeff * var over zip(coeffs, vars), the first n pairs
SumZip(coeffs, point, n) ==
    IF n = 0 THEN 0 ELSE coeffs[n] * point[n] + SumZip(coeffs, point, n - 1)

\* gp.quicksum(coeff * vars_dict[var_name] for coeff, var_name in zip(coeff_row, names)):
\* zip stops at the shorter of the two
Quicksum(coeff_row, point) == SumZip(coeff_row, point, Min(Len(coeff_row), Len(point)))

RECURSIVE QuicksumRows(_, _, _)
\* the sum of Quicksum over the first k rows
QuicksumRows(rows, point, k) ==
    IF k = 0 THEN 0 ELSE Quicksum(rows[k], point) + QuicksumRows(rows, point, k - 1)

RecognizedOperators == {"<=", ">=", "=="}

\* the if/elif chain that adds the constraints raises ValueError on any other operator
InvalidOperator(operators) ==
    \E k \in 1..Len(operators) : operators[k] \notin RecognizedOperators

\* the constraints added with "<=" and ">=" exchanged
ConstraintHoldsSwapped(coeff_row, operator, last_value, point) ==
    LET lhs == Quicksum(coeff_row, point)
        rhs == last_value * Denom
    IN  CASE operator = "<=" -> lhs >= rhs
          [] operator = ">=" -> lhs <= rhs
          [] operator = "==" -> lhs = rhs
          [] OTHER -> FALSE

\* the constraint added by the if/elif chain on the operator
ConstraintHolds(coeff_row, operator, last_value, point) ==
    LET lhs == Quicksum(coeff_row, point)
        rhs == last_value * Denom
    IN  CASE operator = "<=" -> lhs <= rhs
          [] operator = ">=" -> lhs >= rhs
          [] operator = "==" -> lhs = rhs
          [] OTHER -> FALSE

\* addVar(lb, ub, vtype)
Var(lb, ub, vtype) == [lb |-> lb, ub |-> ub, vtype |-> vtype]

WithinVar(v, var) ==
    /\ var.lb * Denom <= v
    /\ v <= var.ub * Denom
    /\ (var.vtype = "BINARY" => v \in {0, Denom})

\* position of a point in the order the oracle breaks ties by
RECURSIVE Rank(_, _)
Rank(point, n) == IF n = 0 THEN 0 ELSE point[n] + (Denom + 1) * Rank(point, n - 1)

\* round(ObjVal, 2), in hundredths; num is the objective's numerator over Denom
Round2(num) == (200 * num + Denom) \div (2 * Denom)

\* gp_model.optimize(): the optimal point of the LP over the multiples of
\* 1/Denom, or Status /= OPTIMAL when no point satisfies the constraints and
\* the variables' bounds. objective_rows are the rows summed in the objective.
Optimize(set_obj, objective_rows, constraint_coeffs, operators, last_values, vars_dict) ==
    LET n == Len(vars_dict)
        feasible == {p \in [1..n -> 0..Denom] :
                        /\ \A i \in 1..n : WithinVar(p[i], vars_dict[i])
                        /\ \A k \in 1..Len(constraint_coeffs) :
                              ConstraintHolds(constraint_coeffs[k], operators[k], last_values[k], p)}
        \* each feasible point with its objective value and its rank
        valued == {<<QuicksumRows(objective_rows, p, Len(objective_rows)), Rank(p, n), p>> :
                      p \in feasible}
        Better(a, b) == IF set_obj = "MAXIMIZE" THEN a >= b ELSE a <= b
        opt == CHOOSE v \in valued :
                  \A w \in valued : \/ (v[1] /= w[1] /\ Better(v[1], w[1]))
                                     \/ (v[1] = w[1] /\ v[2] <= w[2])
    IN  IF feasible = {}
        THEN [Status |-> "INFEASIBLE", ObjVal |-> 0, X |-> <<>>]
        ELSE [Status |-> "OPTIMAL", ObjVal |-> opt[1], X |-> opt[3]]

(* --------------------------- lp_relaxation ---------------------------- *)
\* every variable continuous in [0, 1]; the objective sums every constraint row
lp_relaxation(set_obj, coefficients, operators, last_values, decision_variables) ==
    LET vars_dict == [i \in 1..Len(decision_variables) |-> Var(0, 1, "CONTINUOUS")]
        r == Optimize(set_obj, coefficients, coefficients, operators, last_values, vars_dict)
    IN  IF r.Status = "OPTIMAL" THEN PyDict(Items(decision_variables, r.X)) ELSE PyNone

(* ------------------------ find_next_branch_var ------------------------ *)
RECURSIVE BranchScanUpToOne(_, _, _, _)
\* the loop with the test 0 < var_value <= 1
BranchScanUpToOne(items, i, next_branch_var, max_fractional_value) ==
    IF i > Len(items) THEN next_branch_var
    ELSE IF /\ 0 < items[i][2]
            /\ items[i][2] <= Denom
            /\ items[i][2] > max_fractional_value
         THEN BranchScanUpToOne(items, i + 1, items[i][1], items[i][2])
         ELSE BranchScanUpToOne(items, i + 1, next_branch_var, max_fractional_value)

RECURSIVE BranchScanLastTie(_, _, _, _)
\* the loop with the test var_value >= max_fractional_value
BranchScanLastTie(items, i, next_branch_var, max_fractional_value) ==
    IF i > Len(items) THEN next_branch_var
    ELSE IF /\ 0 < items[i][2]
            /\ items[i][2] < Denom
            /\ items[i][2] >= max_fractional_value
         THEN BranchScanLastTie(items, i + 1, items[i][1], items[i][2])
         ELSE BranchScanLastTie(items, i + 1, next_branch_var, max_fractional_value)

RECURSIVE BranchScan(_, _, _, _)
\* the for loop over relaxation.items(), from item i on
BranchScan(items, i, next_branch_var, max_fractional_value) ==
    IF i > Len(items) THEN next_branch_var
    ELSE IF /\ 0 < items[i][2]
            /\ items[i][2] < Denom
            /\ items[i][2] > max_fractional_value
         THEN BranchScan(items, i + 1, items[i][1], items[i][2])
         ELSE BranchScan(items, i + 1, next_branch_var, max_fractional_value)

find_next_branch_var(items) == BranchScan(items, 1, None, -1)

(* -------------------------- all_binary_check -------------------------- *)
all_binary_check(items) ==
    \A i \in 1..Len(items) : items[i][2] = 0 \/ items[i][2] = Denom

(* ------------------------------ nodes --------------------------------- *)
\* the node dictionary built after optimize() by generate_root_node and the
\* two child generators
NodeOf(names, r) ==
    IF r.Status = "OPTIMAL"
    THEN [optimal_objective |-> Round2(r.ObjVal), decision_vars |-> PyDict(Items(names, r.X))]
    ELSE [optimal_objective |-> -1, decision_vars |-> PyStr("infeasible")]

NoNode == [optimal_objective |-> -1, decision_vars |-> PyNone]

generate_root_node(set_obj, objective_coeffs, constraint_coeffs, operators, last_values, binary_vars, branch_var) ==
    LET vars_dict == [i \in 1..Len(binary_vars) |->
                        IF binary_vars[i] = branch_var
                        THEN Var(0, 1, "BINARY")
                        ELSE Var(0, 1, "CONTINUOUS")]
    IN  NodeOf(binary_vars,
               Optimize(set_obj, <<objective_coeffs>>, constraint_coeffs, operators, last_values, vars_dict))

\* the left child's branch variable fixed like the right child's
LeftBranchVarFixedLow(root_var_value) == Var(0, 0, "BINARY")

\* the bounds generate_left_child_node gives the branch variable
LeftBranchVar(root_var_value) ==
    IF root_var_value = -1 \/ (0 <= root_var_value /\ root_var_value <= Denom)
    THEN Var(1, 1, "BINARY")
    ELSE IF root_var_value = Denom THEN Var(1, 1, "BINARY")
    ELSE IF root_var_value = 0 THEN Var(0, 0, "BINARY")
    ELSE Var(-1, -1, "ValueError")

\* a right child whose branch variable is left unfixed
RightBranchVarUnfixed(root_var_value) == Var(0, 1, "BINARY")

\* the bounds generate_right_child_node gives the branch variable
RightBranchVar(root_var_value) ==
    IF root_var_value = -1 \/ (0 <= root_var_value /\ root_var_value <= Denom)
    THEN Var(0, 0, "BINARY")
    ELSE IF root_var_value = Denom THEN Var(0, 0, "CONTINUOUS")
    ELSE IF root_var_value = 0 THEN Var(1, 1, "BINARY")
    ELSE Var(-1, -1, "ValueError")

\* the LP request of the left child: vars_dict of generate_left_child_node
LeftVarsDict(binary_vars, branch_var, root_decision_vars) ==
    [i \in 1..Len(binary_vars) |->
        IF binary_vars[i] = branch_var
        THEN LeftBranchVar(DictGet(root_decision_vars, binary_vars[i]))
        ELSE Var(0, 1, "CONTINUOUS")]

\* the LP request of the right child: vars_dict of generate_right_child_node
RightVarsDict(binary_vars, branch_var, root_decision_vars) ==
    [i \in 1..Len(binary_vars) |->
        IF binary_vars[i] = branch_var
        THEN RightBranchVar(DictGet(root_decision_vars, binary_vars[i]))
        ELSE Var(0, 1, "CONTINUOUS")]

generate_left_child_node(m, objective_coeffs, constraint_coeffs, operators, last_values, binary_vars, branch_var, root_decision_vars) ==
    NodeOf(binary_vars,
           Optimize(m.set_obj, <<objective_coeffs>>, constraint_coeffs, operators, last_values,
                    LeftVarsDict(binary_vars, branch_var, root_decision_vars)))

generate_right_child_node(m, objective_coeffs, constraint_coeffs, operators, last_values, binary_vars, branch_var, root_decision_vars) ==
    NodeOf(binary_vars,
           Optimize(m.set_obj, <<objective_coeffs>>, constraint_coeffs, operators, last_values,
                    RightVarsDict(binary_vars, branch_var, root_decision_vars)))

\* the keys of a dict, in order: what iterating decision_vars yields
Keys(items) == [i \in 1..Len(items) |-> items[i][1]]

\* the pair (left_child_node, right_child_node)
generate_child_nodes(m, decision_vars, next_var, root_node_vars) ==
    LET c == extract_coefficients(m)
    IN  <<generate_left_child_node(m, c.objective_coeffs, c.constraint_coeffs, c.operators,
                                   c.last_values, Keys(decision_vars), next_var, root_node_vars),
          generate_right_child_node(m, c.objective_coeffs, c.constraint_coeffs, c.operators,
                                    c.last_values, Keys(decision_vars), next_var, root_node_vars)>>

(* ------------------------------- state -------------------------------- *)
VARIABLES
    model,              \* the Model object submit_model builds
    pc,                 \* the statement the run is at
    error,              \* the exception that ended the run, "" if none
    relaxation,         \* lp_relaxation's result
    next_branch_var,    \* the branching rule's last result
    root_node,          \* generate_root_node's result
    node_list,          \* the frontier
    visited_nodes,      \* the keys admitted so far
    current_node,       \* the node popped last
    current_node_vars,  \* the reference assignment popped with it
    left_child_node,
    right_child_node,
    graph,              \* the nx.DiGraph of create_branch_and_bound_tree
    result,             \* what solve_branch_and_bound returned
    oracle_calls,       \* number of optimize() calls so far
    enqueued,           \* the keys appended to node_list, in order
    popped,             \* the entries popped from node_list, in order
    solve_popped,       \* the entries solve_branch_and_bound had popped when it returned
    lp_requests,        \* the vars_dict of the two child LPs generated last
    lineage             \* for each key appended: the node it was generated from, and its side

vars == <<model, pc, error, relaxation, next_branch_var, root_node, node_list,
          visited_nodes, current_node, current_node_vars, left_child_node,
          right_child_node, graph, result, oracle_calls, enqueued, popped, solve_popped,
          lp_requests, lineage>>

(* ------------------------------ inputs -------------------------------- *)
\* the decision variables named on the last line of the model file
binary_vars == <<"x1", "x2">>

\* the operators a constraint is written with; "<" is not one the solver code knows
WrittenOperators == RecognizedOperators \cup {"<"}

\* coefficient rows: one number per variable, or one number fewer
CoeffRows ==
    [1..Len(binary_vars) -> 0..MaxCoeff] \cup [1..(Len(binary_vars) - 1) -> 0..MaxCoeff]

\* the first constraint is any constraint; the second one bounds the last variable
FirstConstraints ==
    {ConstraintText(row, op, rhs) : row \in CoeffRows, op \in WrittenOperators, rhs \in 0..MaxRhs}

SecondConstraints ==
    {ConstraintText(<<0, c>>, op, rhs) : c \in 0..MaxCoeff, op \in RecognizedOperators, rhs \in 0..MaxRhs}

ObjectiveTexts == {<<1, 1>>, <<1, MaxCoeff>>, <<MaxCoeff, 1>>}

Models ==
    [set_obj : {"MAXIMIZE", "MINIMIZE"},
     obj_f : ObjectiveTexts,
     constraints : {<<c1, c2>> : c1 \in FirstConstraints, c2 \in SecondConstraints},
     binary_vars : {binary_vars}]

EmptyGraph == [nodes |-> <<>>, edges |-> {}]

\* the state shared by every specification before its first step
Blank ==
    /\ error = ""
    /\ next_branch_var = None
    /\ root_node = NoNode
    /\ node_list = <<>>
    /\ visited_nodes = {}
    /\ current_node = NoNode
    /\ current_node_vars = PyNone
    /\ left_child_node = NoNode
    /\ right_child_node = NoNode
    /\ graph = EmptyGraph
    /\ result = PyNone
    /\ oracle_calls = 0
    /\ enqueued = <<>>
    /\ popped = <<>>
    /\ solve_popped = <<>>
    /\ lp_requests = <<>>
    /\ lineage = <<>>

\* submit_model: Model(set_obj, obj_f, constraints, binary_vars) is built and
\* handed to solve_branch_and_bound, then to create_branch_and_bound_tree
Init ==
    /\ model \in Models
    /\ pc = "solve_relaxation"
    /\ relaxation = PyNone
    /\ Blank

Raise(exception) ==
    /\ pc' = "error"
    /\ error' = exception

\* a frontier that gives out the entry appended last
PopLast(list) == <<list[Len(list)], SubSeq(list, 1, Len(list) - 1)>>

\* node_list.pop(0): the entry taken and the entries left
Pop(list) == <<Head(list), Tail(list)>>

\* a left child appended with its own assignment as reference
SolveLeftEntryOwn(child, reference) == <<child, child.decision_vars>>

\* line 397: the left child is appended with the reference assignment of its parent's entry
SolveLeftEntry(child, reference) == <<child, reference>>

\* line 407: the right child is appended with its own assignment
SolveRightEntry(child, reference) == <<child, child.decision_vars>>

\* line 461
TreeLeftEntry(child, reference) == <<child, reference, "left">>

\* a right child appended with the reference of its parent's entry
TreeRightEntryShared(child, reference) == <<child, reference, "right">>

\* line 471
TreeRightEntry(child, reference) == <<child, child.decision_vars, "right">>

\* the record kept for a key when it is appended
Admit(history, key, parent, side) ==
    [k \in DOMAIN history \cup {key} |->
        IF k = key THEN [parent |-> parent, side |-> side] ELSE history[k]]

\* the admission test without the look-up in visited_nodes
AlwaysAdmitted(node, visited) == TRUE

\* tuple(node['decision_vars'].items()) not in visited_nodes
NotVisited(node, visited) == node.decision_vars.items \notin visited

(* ----------------------- solve_branch_and_bound ----------------------- *)
\* lines 366-370: the coefficients are extracted and the pre-root relaxation solved
SolveRelaxation ==
    /\ pc = "solve_relaxation"
    /\ LET c == extract_coefficients(model)
       IN  IF InvalidOperator(c.operators)
           THEN /\ Raise("ValueError")
                /\ UNCHANGED <<relaxation, oracle_calls>>
           ELSE /\ relaxation' = lp_relaxation(model.set_obj, c.constraint_coeffs, c.operators,
                                                c.last_values, model.binary_vars)
                /\ oracle_calls' = oracle_calls + 1
                /\ pc' = "solve_branch_var"
                /\ UNCHANGED error
    /\ node_list' = <<>>
    /\ visited_nodes' = {}
    /\ lineage' = <<>>
    /\ UNCHANGED <<model, lp_requests, next_branch_var, root_node, current_node, current_node_vars,
                   left_child_node, right_child_node, graph, result, enqueued, popped, solve_popped>>

\* line 371: relaxation.items() needs a dict
SolveBranchVar ==
    /\ pc = "solve_branch_var"
    /\ IF relaxation.type = "dict"
       THEN /\ next_branch_var' = find_next_branch_var(relaxation.items)
            /\ pc' = "solve_root"
            /\ UNCHANGED error
       ELSE /\ Raise("AttributeError")
            /\ UNCHANGED next_branch_var
    /\ UNCHANGED <<model, lp_requests, lineage, relaxation, root_node, node_list, visited_nodes, current_node,
                   current_node_vars, left_child_node, right_child_node, graph, result,
                   oracle_calls, enqueued, popped, solve_popped>>

\* line 373
SolveRoot ==
    /\ pc = "solve_root"
    /\ LET c == extract_coefficients(model)
       IN  root_node' = generate_root_node(model.set_obj, c.objective_coeffs, c.constraint_coeffs,
                                           c.operators, c.last_values, model.binary_vars,
                                           next_branch_var)
    /\ oracle_calls' = oracle_calls + 1
    /\ pc' = "solve_admit_root"
    /\ UNCHANGED <<model, lp_requests, lineage, error, relaxation, next_branch_var, node_list, visited_nodes,
                   current_node, current_node_vars, left_child_node, right_child_node, graph,
                   result, enqueued, popped, solve_popped>>

\* lines 375-385: the root is printed with decision_vars.items(), appended and marked
SolveAdmitRoot ==
    /\ pc = "solve_admit_root"
    /\ current_node_vars' = root_node.decision_vars
    /\ IF root_node.decision_vars.type = "dict"
       THEN /\ node_list' = Append(node_list, <<root_node, root_node.decision_vars>>)
            /\ visited_nodes' = visited_nodes \cup {root_node.decision_vars.items}
            /\ enqueued' = Append(enqueued, root_node.decision_vars.items)
            /\ lineage' = Admit(lineage, root_node.decision_vars.items, <<>>, "root")
            /\ pc' = "solve_loop"
            /\ UNCHANGED error
       ELSE /\ Raise("AttributeError")
            /\ UNCHANGED <<node_list, visited_nodes, enqueued, lineage>>
    /\ UNCHANGED <<model, lp_requests, relaxation, next_branch_var, root_node, current_node,
                   left_child_node, right_child_node, graph, result, oracle_calls, popped,
                   solve_popped>>

\* lines 387-393: an entry is popped, its branch variable looked up and both children generated
SolveExpand ==
    /\ pc = "solve_loop"
    /\ node_list /= <<>>
    /\ LET entry == Pop(node_list)[1]
           decision_vars == entry[1].decision_vars
           branch_var == find_next_branch_var(decision_vars.items)
           children == generate_child_nodes(model, decision_vars.items, branch_var, entry[2].items)
       IN  /\ node_list' = Pop(node_list)[2]
           /\ popped' = Append(popped, entry)
           /\ lp_requests' = <<LeftVarsDict(Keys(decision_vars.items), branch_var, entry[2].items),
                               RightVarsDict(Keys(decision_vars.items), branch_var, entry[2].items)>>
           /\ current_node' = entry[1]
           /\ current_node_vars' = entry[2]
           /\ next_branch_var' = branch_var
           /\ left_child_node' = children[1]
           /\ right_child_node' = children[2]
    /\ oracle_calls' = oracle_calls + 2
    /\ pc' = "solve_left"
    /\ UNCHANGED <<model, lineage, error, relaxation, root_node, visited_nodes, graph, result, enqueued,
                   solve_popped>>

\* lines 396-398; the node is a dict of two keys, so "left_child_node and" is true
SolveAdmitLeft ==
    /\ pc = "solve_left"
    /\ IF left_child_node.decision_vars.type = "dict"
       THEN /\ IF NotVisited(left_child_node, visited_nodes)
               THEN /\ node_list' = Append(node_list, SolveLeftEntry(left_child_node, current_node_vars))
                    /\ visited_nodes' = visited_nodes \cup {left_child_node.decision_vars.items}
                    /\ enqueued' = Append(enqueued, left_child_node.decision_vars.items)
                    /\ lineage' = Admit(lineage, left_child_node.decision_vars.items,
                                        current_node.decision_vars.items, "left")
               ELSE UNCHANGED <<node_list, visited_nodes, enqueued, lineage>>
            /\ pc' = "solve_right"
            /\ UNCHANGED error
       ELSE /\ Raise("AttributeError")
            /\ UNCHANGED <<node_list, visited_nodes, enqueued, lineage>>
    /\ UNCHANGED <<model, lp_requests, relaxation, next_branch_var, root_node, current_node,
                   current_node_vars, left_child_node, right_child_node, graph, result,
                   oracle_calls, popped, solve_popped>>

\* lines 406-408; "right_child_node and" is true likewise
SolveAdmitRight ==
    /\ pc = "solve_right"
    /\ IF right_child_node.decision_vars.type = "dict"
       THEN /\ IF NotVisited(right_child_node, visited_nodes)
               THEN /\ node_list' = Append(node_list, SolveRightEntry(right_child_node, current_node_vars))
                    /\ visited_nodes' = visited_nodes \cup {right_child_node.decision_vars.items}
                    /\ enqueued' = Append(enqueued, right_child_node.decision_vars.items)
                    /\ lineage' = Admit(lineage, right_child_node.decision_vars.items,
                                        current_node.decision_vars.items, "right")
               ELSE UNCHANGED <<node_list, visited_nodes, enqueued, lineage>>
            /\ pc' = "solve_loop"
            /\ UNCHANGED error
       ELSE /\ Raise("AttributeError")
            /\ UNCHANGED <<node_list, visited_nodes, enqueued, lineage>>
    /\ UNCHANGED <<model, lp_requests, relaxation, next_branch_var, root_node, current_node,
                   current_node_vars, left_child_node, right_child_node, graph, result,
                   oracle_calls, popped, solve_popped>>

\* line 416, and submit_model going on to create_branch_and_bound_tree
SolveReturn ==
    /\ pc = "solve_loop"
    /\ node_list = <<>>
    /\ result' = PyDict(visited_nodes)
    /\ solve_popped' = popped
    /\ pc' = "tree_relaxation"
    /\ UNCHANGED <<model, lp_requests, lineage, error, relaxation, next_branch_var, root_node, node_list,
                   visited_nodes, current_node, current_node_vars, left_child_node,
                   right_child_node, graph, oracle_calls, enqueued, popped>>

(* -------------------- create_branch_and_bound_tree -------------------- *)
\* graph.add_node(key, optimal_objective=value): the attribute of a node already there is replaced
add_node(g, key, optimal_objective) ==
    [g EXCEPT !.nodes = [k \in DOMAIN g.nodes \cup {key} |->
                            IF k = key THEN optimal_objective ELSE g.nodes[k]]]

\* graph.add_edge(u, v): end points not in the graph yet become nodes without attributes
add_edge(g, u, v) ==
    [nodes |-> [k \in DOMAIN g.nodes \cup {u, v} |->
                   IF k \in DOMAIN g.nodes THEN g.nodes[k] ELSE -1],
     edges |-> g.edges \cup {<<u, v>>}]

\* lines 428-434
TreeRelaxation ==
    /\ pc = "tree_relaxation"
    /\ LET c == extract_coefficients(model)
       IN  IF InvalidOperator(c.operators)
           THEN /\ Raise("ValueError")
                /\ UNCHANGED <<relaxation, oracle_calls>>
           ELSE /\ relaxation' = lp_relaxation(model.set_obj, c.constraint_coeffs, c.operators,
                                                c.last_values, model.binary_vars)
                /\ oracle_calls' = oracle_calls + 1
                /\ pc' = "tree_branch_var"
                /\ UNCHANGED error
    /\ graph' = EmptyGraph
    /\ node_list' = <<>>
    /\ visited_nodes' = {}
    /\ enqueued' = <<>>
    /\ popped' = <<>>
    /\ lineage' = <<>>
    /\ UNCHANGED <<model, lp_requests, next_branch_var, root_node, current_node, current_node_vars,
                   left_child_node, right_child_node, result, solve_popped>>

\* line 435
TreeBranchVar ==
    /\ pc = "tree_branch_var"
    /\ IF relaxation.type = "dict"
       THEN /\ next_branch_var' = find_next_branch_var(relaxation.items)
            /\ pc' = "tree_root"
            /\ UNCHANGED error
       ELSE /\ Raise("AttributeError")
            /\ UNCHANGED next_branch_var
    /\ UNCHANGED <<model, lp_requests, lineage, relaxation, root_node, node_list, visited_nodes, current_node,
                   current_node_vars, left_child_node, right_child_node, graph, result,
                   oracle_calls, enqueued, popped, solve_popped>>

\* line 437
TreeRoot ==
    /\ pc = "tree_root"
    /\ LET c == extract_coefficients(model)
       IN  root_node' = generate_root_node(model.set_obj, c.objective_coeffs, c.constraint_coeffs,
                                           c.operators, c.last_values, model.binary_vars,
                                           next_branch_var)
    /\ oracle_calls' = oracle_calls + 1
    /\ pc' = "tree_admit_root"
    /\ UNCHANGED <<model, lp_requests, lineage, error, relaxation, next_branch_var, node_list, visited_nodes,
                   current_node, current_node_vars, left_child_node, right_child_node, graph,
                   result, enqueued, popped, solve_popped>>

\* lines 438-445: the root becomes a graph node, is appended and marked
TreeAdmitRoot ==
    /\ pc = "tree_admit_root"
    /\ current_node_vars' = root_node.decision_vars
    /\ IF root_node.decision_vars.type = "dict"
       THEN /\ graph' = add_node(graph, root_node.decision_vars.items, root_node.optimal_objective)
            /\ node_list' = Append(node_list, <<root_node, root_node.decision_vars, "root">>)
            /\ visited_nodes' = visited_nodes \cup {root_node.decision_vars.items}
            /\ enqueued' = Append(enqueued, root_node.decision_vars.items)
            /\ lineage' = Admit(lineage, root_node.decision_vars.items, <<>>, "root")
            /\ pc' = "tree_loop"
            /\ UNCHANGED error
       ELSE /\ Raise("AttributeError")
            /\ UNCHANGED <<graph, node_list, visited_nodes, enqueued, lineage>>
    /\ UNCHANGED <<model, lp_requests, relaxation, next_branch_var, root_node, current_node,
                   left_child_node, right_child_node, result, oracle_calls, popped,
                   solve_popped>>

\* lines 447-452
TreeExpand ==
    /\ pc = "tree_loop"
    /\ node_list /= <<>>
    /\ LET entry == Pop(node_list)[1]
           decision_vars == entry[1].decision_vars
           branch_var == find_next_branch_var(decision_vars.items)
           children == generate_child_nodes(model, decision_vars.items, branch_var, entry[2].items)
       IN  /\ node_list' = Pop(node_list)[2]
           /\ popped' = Append(popped, entry)
           /\ lp_requests' = <<LeftVarsDict(Keys(decision_vars.items), branch_var, entry[2].items),
                               RightVarsDict(Keys(decision_vars.items), branch_var, entry[2].items)>>
           /\ current_node' = entry[1]
           /\ current_node_vars' = entry[2]
           /\ next_branch_var' = branch_var
           /\ left_child_node' = children[1]
           /\ right_child_node' = children[2]
    /\ oracle_calls' = oracle_calls + 2
    /\ pc' = "tree_left"
    /\ UNCHANGED <<model, lineage, error, relaxation, root_node, visited_nodes, graph, result, enqueued,
                   solve_popped>>

\* lines 454-462: the left child becomes a node with an edge from current_node_vars
TreeLeft ==
    /\ pc = "tree_left"
    /\ IF left_child_node.decision_vars.type = "dict"
       THEN LET left_child_vars == left_child_node.decision_vars
            IN  /\ graph' = add_edge(add_node(graph, left_child_vars.items,
                                              left_child_node.optimal_objective),
                                     current_node_vars.items, left_child_vars.items)
                /\ IF NotVisited(left_child_node, visited_nodes)
                   THEN /\ node_list' = Append(node_list, TreeLeftEntry(left_child_node, current_node_vars))
                        /\ visited_nodes' = visited_nodes \cup {left_child_vars.items}
                        /\ enqueued' = Append(enqueued, left_child_vars.items)
                        /\ lineage' = Admit(lineage, left_child_vars.items,
                                            current_node.decision_vars.items, "left")
                   ELSE UNCHANGED <<node_list, visited_nodes, enqueued, lineage>>
                /\ pc' = "tree_right"
                /\ UNCHANGED error
       ELSE /\ Raise("AttributeError")
            /\ UNCHANGED <<graph, node_list, visited_nodes, enqueued, lineage>>
    /\ UNCHANGED <<model, lp_requests, relaxation, next_branch_var, root_node, current_node,
                   current_node_vars, left_child_node, right_child_node, result,
                   oracle_calls, popped, solve_popped>>

\* lines 464-472: the right child becomes a node with an edge from current_node_vars
TreeRight ==
    /\ pc = "tree_right"
    /\ IF right_child_node.decision_vars.type = "dict"
       THEN LET right_child_vars == right_child_node.decision_vars
            IN  /\ graph' = add_edge(add_node(graph, right_child_vars.items,
                                              right_child_node.optimal_objective),
                                     current_node_vars.items, right_child_vars.items)
                /\ IF NotVisited(right_child_node, visited_nodes)
                   THEN /\ node_list' = Append(node_list, TreeRightEntry(right_child_node, current_node_vars))
                        /\ visited_nodes' = visited_nodes \cup {right_child_vars.items}
                        /\ enqueued' = Append(enqueued, right_child_vars.items)
                        /\ lineage' = Admit(lineage, right_child_vars.items,
                                            current_node.decision_vars.items, "right")
                   ELSE UNCHANGED <<node_list, visited_nodes, enqueued, lineage>>
                /\ pc' = "tree_loop"
                /\ UNCHANGED error
       ELSE /\ Raise("AttributeError")
            /\ UNCHANGED <<graph, node_list, visited_nodes, enqueued, lineage>>
    /\ UNCHANGED <<model, lp_requests, relaxation, next_branch_var, root_node, current_node,
                   current_node_vars, left_child_node, right_child_node, result,
                   oracle_calls, popped, solve_popped>>

\* line 474: the graph is returned
TreeReturn ==
    /\ pc = "tree_loop"
    /\ node_list = <<>>
    /\ pc' = "done"
    /\ UNCHANGED <<model, lp_requests, lineage, error, relaxation, next_branch_var, root_node, node_list,
                   visited_nodes, current_node, current_node_vars, left_child_node,
                   right_child_node, graph, result, oracle_calls, enqueued, popped,
                   solve_popped>>

Next ==
    \/ SolveRelaxation
    \/ SolveBranchVar
    \/ SolveRoot
    \/ SolveAdmitRoot
    \/ SolveExpand
    \/ SolveAdmitLeft
    \/ SolveAdmitRight
    \/ SolveReturn
    \/ TreeRelaxation
    \/ TreeBranchVar
    \/ TreeRoot
    \/ TreeAdmitRoot
    \/ TreeExpand
    \/ TreeLeft
    \/ TreeRight
    \/ TreeReturn

Spec == Init /\ [][Next]_vars

(* ---------------- the branching rule on any assignment ---------------- *)
\* the names x1 .. xn
Names(n) == [i \in 1..n |-> "x" \o ToString(i)]

\* every assignment of up to MaxVars variables
Assignments ==
    UNION {{Items(Names(n), point) : point \in [1..n -> 0..Denom]} : n \in 1..MaxVars}

NoModel == [set_obj |-> "MAXIMIZE", obj_f |-> <<>>, constraints |-> <<>>, binary_vars |-> <<>>]

InitBranch ==
    /\ model = NoModel
    /\ pc = "branch_rule"
    /\ relaxation \in {PyDict(items) : items \in Assignments}
    /\ Blank

\* find_next_branch_var(relaxation)
BranchRule ==
    /\ pc = "branch_rule"
    /\ next_branch_var' = find_next_branch_var(relaxation.items)
    /\ pc' = "branch_done"
    /\ UNCHANGED <<model, lp_requests, lineage, error, relaxation, root_node, node_list, visited_nodes,
                   current_node, current_node_vars, left_child_node, right_child_node,
                   graph, result, oracle_calls, enqueued, popped, solve_popped>>

NextBranch == BranchRule

SpecBranch == InitBranch /\ [][NextBranch]_vars

(* ------------------------------ claims -------------------------------- *)
Fractional(v) == 0 < v /\ v < Denom

\* the position of a variable name in the items of a dict
Position(items, name) == CHOOSE i \in 1..Len(items) : items[i][1] = name

\* C1: the branching rule answers None exactly for the assignments whose
\* values are all 0 or 1.
C1_NoneIffIntegral ==
    pc = "branch_done" =>
        ((next_branch_var = None) <=>
            (\A i \in 1..Len(relaxation.items) : relaxation.items[i][2] \in {0, Denom}))

C1_Witness ==
    /\ pc = "branch_done"
    /\ next_branch_var = None
    /\ Len(relaxation.items) = MaxVars
    /\ \E i \in 1..Len(relaxation.items) : relaxation.items[i][2] = Denom
    /\ \E i \in 1..Len(relaxation.items) : relaxation.items[i][2] = 0

\* C2: on an assignment with a fractional value the branching rule answers
\* a variable whose value is fractional and the largest fractional value,
\* and the first such variable in the assignment's order.
C2_LargestFractionalFirst ==
    (pc = "branch_done" /\ \E i \in 1..Len(relaxation.items) : Fractional(relaxation.items[i][2])) =>
        /\ \E i \in 1..Len(relaxation.items) : relaxation.items[i][1] = next_branch_var
        /\ LET items == relaxation.items
               b == Position(items, next_branch_var)
           IN  /\ Fractional(items[b][2])
               /\ \A j \in 1..Len(items) : Fractional(items[j][2]) => items[j][2] <= items[b][2]
               /\ \A j \in 1..(b - 1) : items[j][2] /= items[b][2]

\* the first of two equal largest fractional values is answered, past a
\* smaller fractional value and a value of 1
C2_Witness ==
    /\ pc = "branch_done"
    /\ \E i, j \in 1..Len(relaxation.items) :
          /\ i < j
          /\ Fractional(relaxation.items[i][2])
          /\ relaxation.items[j][2] = relaxation.items[i][2]
          /\ next_branch_var = relaxation.items[i][1]
          /\ \E k \in 1..(i - 1) : relaxation.items[k][2] = Denom
          /\ \E k \in 1..(i - 1) :
                /\ Fractional(relaxation.items[k][2])
                /\ relaxation.items[k][2] < relaxation.items[i][2]

\* the set of the elements of a sequence
Range(seq) == {seq[i] : i \in 1..Len(seq)}

NoDuplicates(seq) == \A i, j \in 1..Len(seq) : i /= j => seq[i] /= seq[j]

Infeasible(node) == node.decision_vars = PyStr("infeasible")

\* both children of the popped entry have been generated
ChildrenGenerated == pc \in {"solve_left", "tree_left"}

\* the run is past the admission of the right child of the last expansion
AfterSolve == pc \in {"tree_relaxation", "tree_branch_var", "tree_root", "tree_admit_root",
                      "tree_loop", "tree_left", "tree_right", "done"}

\* C3: a key is appended to the frontier only when it is not visited and is
\* marked visited in the same step: the keys appended are pairwise different,
\* they are exactly the visited keys, and so is every key waiting in the frontier.
C3_StrictDeduplication ==
    /\ NoDuplicates(enqueued)
    /\ Range(enqueued) = visited_nodes
    /\ \A i \in 1..Len(node_list) : node_list[i][1].decision_vars.items \in visited_nodes
    /\ NoDuplicates([i \in 1..Len(node_list) |-> node_list[i][1].decision_vars.items])

\* a right child was turned away as visited after another child had been admitted
C3_Witness ==
    /\ pc = "solve_loop"
    /\ Len(enqueued) >= 2
    /\ right_child_node.decision_vars.type = "dict"
    /\ right_child_node.decision_vars.items /= enqueued[Len(enqueued)]
    /\ right_child_node.decision_vars.items \in visited_nodes

\* the number of edges of the graph that end in a node
InDegree(g, key) == Cardinality({e \in g.edges : e[2] = key})

\* C4: in the returned graph the root has no incoming edge and every other
\* node has at least one.
C4_RootHasNoIncomingEdge ==
    pc = "done" =>
        /\ InDegree(graph, root_node.decision_vars.items) = 0
        /\ \A k \in DOMAIN graph.nodes :
              k /= root_node.decision_vars.items => InDegree(graph, k) >= 1

\* some coefficient row has not one coefficient per binary variable
RowLengthMismatch(m) ==
    \E k \in 1..Len(m.constraints) : Len(m.constraints[k].coeffs) /= Len(m.binary_vars)

\* C5: a model with a coefficient row of the wrong length fails with a
\* ModelError before the LP oracle is called.
C5_ModelErrorBeforeOracle ==
    (RowLengthMismatch(model) /\ ~InvalidOperator(extract_coefficients(model).operators)) =>
        /\ oracle_calls = 0
        /\ (pc = "solve_relaxation" \/ error = "ModelError")

\* C6: an infeasible child does not end the run with an error; it is
\* recorded and never popped for expansion.
C6_InfeasibleChildIsNotAnError ==
    /\ (Infeasible(left_child_node) \/ Infeasible(right_child_node)) => error = ""
    /\ \A i \in 1..Len(popped) : ~Infeasible(popped[i][1])

\* the pre-root relaxation or the root LP was reported infeasible
RootInfeasible ==
    \/ (oracle_calls >= 1 /\ relaxation = PyNone)
    \/ Infeasible(root_node)

\* C7: with an infeasible root the run ends normally, without an error and
\* without entering the expand loop.
C7_InfeasibleRootEndsNormally ==
    RootInfeasible => (error = "" /\ popped = <<>>)

\* the entry to be popped next is integral: the branching rule answers None on it
IntegralAtHead ==
    /\ pc \in {"solve_loop", "tree_loop"}
    /\ node_list /= <<>>
    /\ find_next_branch_var(Head(node_list)[1].decision_vars.items) = None

\* C8: a popped node on which the branching rule answers None is a leaf: no
\* child is generated for it and the LP oracle is not called for it.
C8_IntegralNodeIsLeaf ==
    [][IntegralAtHead =>
           /\ oracle_calls' = oracle_calls
           /\ left_child_node' = left_child_node
           /\ right_child_node' = right_child_node]_vars

\* C9 as stated: the children of a feasible popped node are never both infeasible.
C9_NeverBothInfeasible ==
    (ChildrenGenerated /\ current_node.decision_vars.type = "dict") =>
        ~(Infeasible(left_child_node) /\ Infeasible(right_child_node))

\* the points that satisfy every constraint of the model, each variable in [0, 1]
ModelPoints(m) ==
    {p \in [1..Len(m.binary_vars) -> 0..Denom] :
        \A k \in 1..Len(m.constraints) :
            ConstraintHolds(m.constraints[k].coeffs, m.constraints[k].operator,
                            m.constraints[k].last_value, p)}

\* C9 (amended): the children generated for branch variable b are not both
\* infeasible when the constraints have a solution in which b is exactly 0
\* or exactly 1.
C9_NotBothInfeasibleIfIntegralPoint ==
    (/\ ChildrenGenerated
     /\ next_branch_var /= None
     /\ \E p \in ModelPoints(model) :
           p[Position(current_node.decision_vars.items, next_branch_var)] \in {0, Denom}) =>
        ~(Infeasible(left_child_node) /\ Infeasible(right_child_node))

\* the left child is infeasible, and only the solution with b at 0 keeps the right one feasible
C9_Witness ==
    /\ ChildrenGenerated
    /\ next_branch_var /= None
    /\ Infeasible(left_child_node)
    /\ ~Infeasible(right_child_node)

\* a constraint "<= 0" with a positive coefficient for every variable
ForcesZero(m) ==
    \E k \in 1..Len(m.constraints) :
        /\ m.constraints[k].operator = "<="
        /\ m.constraints[k].last_value = 0
        /\ Len(m.constraints[k].coeffs) = Len(m.binary_vars)
        /\ \A i \in 1..Len(m.binary_vars) : m.constraints[k].coeffs[i] > 0

ZeroPoint(m) == [i \in 1..Len(m.binary_vars) |-> 0]

\* C10: when a "<= 0" constraint over positive coefficients forces every
\* variable to 0, the run ends without an error, the root is integral, the
\* branching rule answers None on it and the visited set returned is the
\* all-zero assignment alone.
C10_ZeroRootSingleVisited ==
    (ForcesZero(model) /\ ZeroPoint(model) \in ModelPoints(model)) =>
        /\ error = ""
        /\ AfterSolve =>
              /\ all_binary_check(root_node.decision_vars.items)
              /\ find_next_branch_var(root_node.decision_vars.items) = None
              /\ result = PyDict({Items(model.binary_vars, ZeroPoint(model))})

C10_Witness ==
    /\ ForcesZero(model)
    /\ pc = "tree_relaxation"
    /\ Len(solve_popped) = 1
    /\ result = PyDict({Items(model.binary_vars, ZeroPoint(model))})

(* ------------------------------ C11 ------------------------------ *)

\* the run has ended: no step of Next starts from "done" or "error"
Stopped == pc \in {"done", "error"}

\* C11: a run whose model the oracle accepts ends only by returning: when it has ended,
\* create_branch_and_bound_tree has returned with the frontier empty, whether the
\* oracle answered with assignments or with infeasibility.
C11_RunEndsByReturning ==
    Stopped => \/ pc = "done" /\ node_list = <<>>
               \/ error = "ValueError"

(* ------------------------------ C12 ------------------------------ *)

\* the value the reference assignment of the expanded entry gives the branch variable
ReferenceValue == DictGet(current_node_vars.items, next_branch_var)

\* the bounds are lb and ub and every other variable is continuous in [0, 1]
FixesOnly(request, names, branch_var, lb, ub) ==
    \A i \in 1..Len(names) :
        IF names[i] = branch_var
        THEN request[i].lb = lb /\ request[i].ub = ub
        ELSE request[i] = Var(0, 1, "CONTINUOUS")

\* C12: when the reference assignment gives the branch variable a fractional value, or
\* none, the left request fixes it to [1, 1], the right request to [0, 0], and both leave
\* every other variable continuous in [0, 1], whatever an ancestor had fixed.
C12_FractionalReferenceFixesOneThenZero ==
    (ChildrenGenerated /\ next_branch_var # None
        /\ (Fractional(ReferenceValue) \/ ReferenceValue = -1))
    => /\ FixesOnly(lp_requests[1], Keys(current_node.decision_vars.items), next_branch_var, 1, 1)
       /\ FixesOnly(lp_requests[2], Keys(current_node.decision_vars.items), next_branch_var, 0, 0)

\* the children of a node whose parent branched on another variable: that variable is
\* free again in both requests
C12_Witness ==
    /\ ChildrenGenerated /\ next_branch_var # None
    /\ Fractional(ReferenceValue)
    /\ LET parent == lineage[current_node.decision_vars.items].parent
       IN  /\ parent # <<>>
           /\ find_next_branch_var(parent) \notin {None, next_branch_var}
    /\ lp_requests[1][Position(current_node_vars.items, next_branch_var)] = Var(1, 1, "BINARY")
    /\ lp_requests[2][Position(current_node_vars.items, next_branch_var)] = Var(0, 0, "BINARY")

(* ------------------------------ C13 ------------------------------ *)

\* C13: when the reference assignment gives the branch variable exactly 0, the left
\* request fixes it to [0, 0] and the right request fixes it to [1, 1].
C13_ZeroReferenceFixesZeroThenOne ==
    (ChildrenGenerated /\ next_branch_var # None /\ ReferenceValue = 0)
    => /\ FixesOnly(lp_requests[1], Keys(current_node.decision_vars.items), next_branch_var, 0, 0)
       /\ FixesOnly(lp_requests[2], Keys(current_node.decision_vars.items), next_branch_var, 1, 1)

(* ------------------------------ C14 ------------------------------ *)

\* the node and the reference assignment of each entry, without the tree mode's node type
NodeAndReference(entries) == [i \in 1..Len(entries) |-> <<entries[i][1], entries[i][2]>>]

IsPrefix(s, t) == Len(s) <= Len(t) /\ s = SubSeq(t, 1, Len(s))

TreeRunning == pc \in {"tree_relaxation", "tree_branch_var", "tree_root", "tree_admit_root",
                        "tree_loop", "tree_left", "tree_right"}

\* C14: create_branch_and_bound_tree pops the entries solve_branch_and_bound popped, in
\* the same order, and when it returns the nodes of its graph are the visited set
\* solve_branch_and_bound returned.
C14_SameTraversal ==
    /\ TreeRunning => IsPrefix(NodeAndReference(popped), solve_popped)
    /\ pc = "done" => /\ NodeAndReference(popped) = solve_popped
                      /\ DOMAIN graph.nodes = result.items

\* a returned run that popped a left child and a right child
C14_Witness ==
    /\ pc = "done"
    /\ Len(solve_popped) >= 3
    /\ \E i, j \in 1..Len(popped) : popped[i][3] = "left" /\ popped[j][3] = "right"
    /\ Cardinality(result.items) >= 3

(* ------------------------------ C15 ------------------------------ *)

EntryKeys(entries) == [i \in 1..Len(entries) |-> entries[i][1].decision_vars.items]

\* the key was appended as the given child of the node expanded last
AppendedAs(node, side) ==
    /\ node.decision_vars.type = "dict"
    /\ node.decision_vars.items \in DOMAIN lineage
    /\ lineage[node.decision_vars.items] =
           [parent |-> current_node.decision_vars.items, side |-> side]

\* C15: the frontier is first in, first out: the entries popped so far followed by the
\* entries waiting are the appended entries in the order of their appends, and when
\* an expansion appends both children the left one is appended just before the right one.
C15_FrontierIsFifo ==
    /\ EntryKeys(popped) \o EntryKeys(node_list) = enqueued
    /\ (pc \in {"solve_loop", "tree_loop"} /\ Len(popped) >= 1
            /\ AppendedAs(left_child_node, "left") /\ AppendedAs(right_child_node, "right"))
       => /\ Len(enqueued) >= 2
          /\ enqueued[Len(enqueued) - 1] = left_child_node.decision_vars.items
          /\ enqueued[Len(enqueued)] = right_child_node.decision_vars.items

\* both children of one node were appended and then popped, the left one first
C15_Witness ==
    \E i \in 1..Len(popped) :
        /\ i + 1 <= Len(popped)
        /\ lineage[EntryKeys(popped)[i]].side = "left"
        /\ lineage[EntryKeys(popped)[i + 1]].side = "right"
        /\ lineage[EntryKeys(popped)[i]].parent = lineage[EntryKeys(popped)[i + 1]].parent

(* ------------------------------ C16 ------------------------------ *)

\* the expansion of the node popped last has put its children into the graph
LeftEdgeAdded == pc = "tree_right" \/ (pc = "tree_loop" /\ Len(popped) >= 1)

RightEdgeAdded == pc = "tree_loop" /\ Len(popped) >= 1

\* C16: the edges an expansion adds start at the popped node's own assignment: a child
\* is attached to the node it was generated from, not to an ancestor of that node.
C16_EdgeFromPoppedNode ==
    /\ LeftEdgeAdded =>
           <<current_node.decision_vars.items, left_child_node.decision_vars.items>> \in graph.edges
    /\ RightEdgeAdded =>
           <<current_node.decision_vars.items, right_child_node.decision_vars.items>> \in graph.edges

(* ------------------------------ C17 ------------------------------ *)

\* every entry appended so far: the popped ones and the waiting ones
AllEntries == popped \o node_list

\* the reference assignment stored with the entry of the given key
ReferenceOf(key) ==
    LET i == CHOOSE i \in 1..Len(AllEntries) : EntryKeys(AllEntries)[i] = key
    IN  AllEntries[i][2].items

RECURSIVE NearestAnchor(_)
\* the nearest of the node and its ancestors that is the root or was appended as a right child
NearestAnchor(key) ==
    IF lineage[key].side \in {"root", "right"}
    THEN key
    ELSE NearestAnchor(lineage[key].parent)

\* C17: a left child is stored with the reference of the entry it was generated from, a
\* right child (and the root) with its own assignment; so the reference of every entry
\* is the assignment of its nearest ancestor-or-self that is the root or a right child.
C17_ReferenceThreading ==
    \A key \in Range(EntryKeys(AllEntries)) :
        /\ lineage[key].side = "left" => ReferenceOf(key) = ReferenceOf(lineage[key].parent)
        /\ lineage[key].side \in {"root", "right"} => ReferenceOf(key) = key
        /\ ReferenceOf(key) = NearestAnchor(key)

\* a left child of a left child, stored with the assignment of its grandparent
C17_Witness ==
    \E left \in Range(EntryKeys(AllEntries)) :
        /\ lineage[left].side = "left"
        /\ lineage[lineage[left].parent].side = "left"
        /\ ReferenceOf(left) = lineage[lineage[left].parent].parent
        /\ ReferenceOf(left) \notin {left, lineage[left].parent}

(* ------------------------------ C18 ------------------------------ *)

\* the graph has an edge from the node expanded last to the child
EdgeFromParent(child) ==
    \E e \in graph.edges :
        e = <<current_node.decision_vars.items, child.decision_vars.items>>

\* C18: in the tree mode every child an expansion produces gets an edge from its parent,
\* visited before or not, while no key is appended a second time and no node is
\* expanded a second time.
C18_EdgeForEveryChildExpandedOnce ==
    (TreeRunning \/ pc = "done") =>
        /\ LeftEdgeAdded => EdgeFromParent(left_child_node)
        /\ RightEdgeAdded => EdgeFromParent(right_child_node)
        /\ NoDuplicates(enqueued)
        /\ NoDuplicates(EntryKeys(popped))

====
